---- MODULE Spec2Model ----
(***************************************************************************)
(* Asynchronous scan pipeline of the sitemap W3C validator:                *)
(*   ScanService.createScan / cancelScan   (services/scan.service.js)      *)
(*   scanQueue, scanWorker processor       (queues/scanQueue.js)           *)
(*   validateUrls, processW3CResult        (utils/w3cValidator.js)         *)
(*   CreditService                         (credit service)                *)
(* One user owns every scan; one BullMQ job exists per scan, so the job of *)
(* scan s is identified by s.  Every await of the worker processor is an   *)
(* interleaving point; an awaited job.updateProgress is folded into the    *)
(* step of the database call that precedes it, with its own failure        *)
(* outcome.  Calls to the database, to Redis and to the network may fail.  *)
(***************************************************************************)
EXTENDS Integers, Sequences, FiniteSets, TLC

\* ---------------------------------------------------------------- bounds
MaxScans   == 2      \* scans the user creates
MaxUrls    == 2      \* URLs a resolved sitemap holds at most
MaxFaults  == 2      \* failing calls (database, Redis, network) injected
MaxCancels == 1      \* cancelScan calls
InitCredit == 2      \* largest balance of the user's credit record at the start
MaxCallers == 2      \* concurrent callers of the credit service
MaxCalls   == 2      \* calls each of them makes
MaxAmount  == 2      \* largest amount passed to the credit service
MaxLocs    == 3      \* <loc> entries of a sitemap

\* ------------------------------------------------------ program constants
Attempts    == 3     \* defaultJobOptions.attempts
Concurrency == 2     \* worker option concurrency
MaxTopUp    == 10000 \* addCredits ceiling
MaxSitemapUrls == 10000 \* appConfig.w3c.maxSitemapUrls

ScanIds == 1..MaxScans
Users   == {1, 2}
Owner   == 1
NoRecord == -1000    \* no row in the credit table for the user

\* error messages, as the strings the code builds
ResolverError  == <<"Failed to fetch sitemap: HTTP 404: Not Found">>
DbError        == <<"database error">>
RedisError     == <<"redis error">>
CancelledMsg   == <<"Cancelled by user">>
NoAccountMsg   == <<"No credit account found">>
NoMsg          == <<>>

VARIABLES
  scan,        \* scan table: scan[s] = row of Scan s (status "none": no row)
  scanResult,  \* scanResult table: scanResult[s] = rows whose scanId is s
  credit,      \* credit table: amount of the user's row, or NoRecord
  job,         \* BullMQ job of scan s
  pc,          \* position of the processor run of job s
  urls,        \* processor local: urls
  results,     \* validateUrls local: results
  thrown,      \* processor: the error caught by the catch block
  cancelling,  \* cancelScan calls between their findFirst and their update
  faults,      \* failing calls injected so far
  cancels,     \* cancelScan calls made so far
  att,         \* bookkeeping of the current attempt of job s (not program state)
  lpc,         \* credit service caller c: position in its current call
  lamt,        \* credit service caller c: amount of its current call
  lres,        \* credit service caller c: outcome of its last call
  lsum,        \* totals of the credit service calls (not program state)
  createReply, \* createScan call for scan s: its position or its outcome
  cancelReply, \* outcome of the last cancelScan call for scan s
  sitemap,     \* the <loc> texts of the sitemap given to the resolver
  resolved,    \* what validateAndParseSitemap has returned for it
  bpc,         \* validateUrls call: its position
  burls,       \* validateUrls call: urls
  bcallback,   \* validateUrls call: progressCallback (none, returns, throws)
  bi,          \* validateUrls call: loop index i
  bresults,    \* validateUrls call: results
  bok          \* iterations whose validateUrl returned (not program state)

lvars == <<lpc, lamt, lres, lsum>>
avars == <<createReply, cancelReply>>
bvars == <<sitemap, resolved, bpc, burls, bcallback, bi, bresults, bok>>
vars == <<scan, scanResult, credit, job, pc, urls, results, thrown,
          cancelling, faults, cancels, att, lpc, lamt, lres, lsum,
          createReply, cancelReply, sitemap, resolved, bpc, burls, bcallback,
          bi, bresults, bok>>

Callers == 1..MaxCallers

\* ------------------------------------------------------- pure functions

\* a message of the W3C response: its type and subType ("none": absent)
ErrFatal == [type |-> "error", subType |-> "fatal"]
ErrPlain == [type |-> "error", subType |-> "none"]
Warn     == [type |-> "info",  subType |-> "warning"]
Info     == [type |-> "info",  subType |-> "none"]
NonDoc   == [type |-> "non-document-error", subType |-> "io"]

\* the message lists the validator service answers with: a warning and a
\* plain info message, or two errors among a warning and another message
Responses == { <<Warn, Info>>, <<ErrFatal, Warn, NonDoc, ErrPlain>> }

mapW3CSeverity(subType) ==
  CASE subType = "fatal"   -> "critical"
    [] subType = "error"   -> "high"
    [] subType = "warning" -> "medium"
    [] subType = "info"    -> "low"
    [] OTHER               -> "medium"

processedMessage(m) == [type |-> m.type, severity |-> mapW3CSeverity(m.subType)]

RECURSIVE errorsOf(_)
errorsOf(msgs) ==
  IF msgs = <<>> THEN <<>>
  ELSE IF Head(msgs).type = "error"
       THEN <<processedMessage(Head(msgs))>> \o errorsOf(Tail(msgs))
       ELSE errorsOf(Tail(msgs))

RECURSIVE warningsOf(_)
warningsOf(msgs) ==
  IF msgs = <<>> THEN <<>>
  ELSE IF Head(msgs).type = "info" /\ Head(msgs).subType = "warning"
       THEN <<processedMessage(Head(msgs))>> \o warningsOf(Tail(msgs))
       ELSE warningsOf(Tail(msgs))

isValidOf(errors) == Len(errors) = 0

\* what the validator service answers for the page at url: the pages with an
\* odd number have no error, the others have errors
PageResponses(url) ==
  { msgs \in Responses : isValidOf(errorsOf(msgs)) = (url % 2 = 1) }

processW3CResult(msgs, url) ==
  [url |-> url, isValid |-> isValidOf(errorsOf(msgs)),
   errors |-> errorsOf(msgs), warnings |-> warningsOf(msgs)]

\* mutant: the synthetic result is marked valid
failedResult_valid(url) ==
  [url |-> url, isValid |-> TRUE,
   errors |-> << [type |-> "validation_error", severity |-> "critical"] >>,
   warnings |-> <<>>]

\* the synthetic result validateUrls records when validateUrl throws
failedResult(url) ==
  [url |-> url, isValid |-> FALSE,
   errors |-> << [type |-> "validation_error", severity |-> "critical"] >>,
   warnings |-> <<>>]

\* mutant: the batch is given 70 points of progress
overallProgress_wide(completed, total) == 30 + ((2 * completed * 70 + total) \div (2 * total))

\* 30 + Math.round((completed / urls.length) * 60)
overallProgress(completed, total) == 30 + ((2 * completed * 60 + total) \div (2 * total))

\* the row the processor builds from a validation result
scanResultRow(r) ==
  [url |-> r.url, errors |-> r.errors, warnings |-> r.warnings, isValid |-> r.isValid]

RECURSIVE mapRows(_)
mapRows(rs) == IF rs = <<>> THEN <<>> ELSE <<scanResultRow(Head(rs))>> \o mapRows(Tail(rs))

\* ---- sitemap resolver: a text is a sequence of tokens, Sp is white space
Sp == " "
Words == {"http://a/", "https://a/", "ftp://a/", "a"}
LocTexts ==
  {<<>>, <<Sp>>} \cup {<<w>> : w \in Words} \cup {<<Sp, w, Sp>> : w \in Words}
Sitemaps == UNION {[1..n -> LocTexts] : n \in 0..MaxLocs}

RECURSIVE trimStart(_)
trimStart(t) == IF t # <<>> /\ Head(t) = Sp THEN trimStart(Tail(t)) ELSE t

RECURSIVE trimEnd(_)
trimEnd(t) ==
  IF t # <<>> /\ t[Len(t)] = Sp THEN trimEnd(SubSeq(t, 1, Len(t) - 1)) ELSE t

\* String.prototype.trim
trim(t) == trimEnd(trimStart(t))

\* new URL(string).protocol, or TypeError when the string is no absolute URL
protocol(t) ==
  IF t = <<"http://a/">> THEN "http:"
  ELSE IF t = <<"https://a/">> THEN "https:"
  ELSE IF t = <<"ftp://a/">> THEN "ftp:"
  ELSE "TypeError"

isValidHttpUrl(t) == protocol(t) \in {"http:", "https:"}

\* validateUrl of the validation utilities throws for the string
validateUrlThrows(t) == protocol(t) \notin {"http:", "https:"}

\* the urls array after the loop over the entries: loc[0] non-empty, trimmed,
\* non-empty and a valid HTTP/HTTPS URL
RECURSIVE pushed(_)
pushed(locs) ==
  IF locs = <<>> THEN <<>>
  ELSE LET url == trim(Head(locs)) IN
         (IF Head(locs) # <<>> /\ url # <<>> /\ isValidHttpUrl(url)
          THEN <<url>> ELSE <<>>) \o pushed(Tail(locs))

\* mutant: no removal of duplicates
uniqueUrls_all(us) == us

\* [...new Set(urls)]: the first occurrence of each string, in insertion order
RECURSIVE uniqueUrls(_)
uniqueUrls(us) ==
  IF us = <<>> THEN <<>>
  ELSE LET before == uniqueUrls(SubSeq(us, 1, Len(us) - 1))
           last == us[Len(us)]
       IN IF \E k \in 1..Len(before) : before[k] = last
          THEN before ELSE Append(before, last)

validUrls(us) == SelectSeq(us, LAMBDA u : ~validateUrlThrows(u))

extractUrlsFromParsedXml(locs) == validUrls(uniqueUrls(pushed(locs)))

\* validateAndParseSitemap on a fetched sitemap: parseSitemap rejects an
\* empty list and a list above the maximum, and the rejection is returned
validateAndParseSitemap(locs) ==
  LET us == extractUrlsFromParsedXml(locs) IN
    IF Len(us) = 0
    THEN [state |-> "done", isValid |-> FALSE, urls |-> <<>>,
          error |-> <<"No URLs found in sitemap">>]
    ELSE IF Len(us) > MaxSitemapUrls
    THEN [state |-> "done", isValid |-> FALSE, urls |-> <<>>,
          error |-> <<"Sitemap contains too many URLs">>]
    ELSE [state |-> "done", isValid |-> TRUE, urls |-> us, error |-> NoMsg]

\* the URL lists validateAndParseSitemap can return: 1..n for n in 1..MaxUrls
ResolvedLists == { [i \in 1..n |-> i] : n \in 1..MaxUrls }

InsufficientMsg(required, available) == <<"Insufficient credits", required, available>>

\* ------------------------------------------------------------ initial state
NoScanRow == [status |-> "none", totalUrls |-> 0, finishedAt |-> FALSE, errorMsg |-> NoMsg]
NoJob     == [state |-> "none", attemptsMade |-> 0, progress |-> 0]
\* bookkeeping of an attempt: credits deducted and refunded in it, the error
\* its catch block caught, which error left the processor, the indices of the
\* URLs whose validateUrl call threw; charged is the net amount taken from the
\* balance for the scan over all attempts
EndAttempt(prev) ==
  [deducted |-> 0, refunded |-> 0, caught |-> NoMsg, escaped |-> "none",
   threw |-> {}, charged |-> prev.charged]

NotResolved == [state |-> "none", isValid |-> FALSE, urls |-> <<>>, error |-> NoMsg]

\* the state after construction; spent is how many of the MaxFaults rejections
\* of database and Redis calls have already happened
Start(spent, locs) ==
  /\ scan = [s \in ScanIds |-> NoScanRow]
  /\ scanResult = [s \in ScanIds |-> <<>>]
  /\ credit \in {NoRecord} \cup 0..InitCredit
  /\ job = [s \in ScanIds |-> NoJob]
  /\ pc = [s \in ScanIds |-> "idle"]
  /\ urls = [s \in ScanIds |-> <<>>]
  /\ results = [s \in ScanIds |-> <<>>]
  /\ thrown = [s \in ScanIds |-> NoMsg]
  /\ cancelling = [s \in ScanIds |-> FALSE]
  /\ faults = spent
  /\ cancels = 0
  /\ att = [s \in ScanIds |->
             [deducted |-> 0, refunded |-> 0, caught |-> NoMsg, escaped |-> "none",
              threw |-> {}, charged |-> 0]]
  /\ lpc = [c \in Callers |-> "idle"]
  /\ lamt = [c \in Callers |-> 0]
  /\ lres = [c \in Callers |-> "none"]
  /\ lsum = [initial |-> IF credit = NoRecord THEN 0 ELSE credit,
             deducted |-> 0, added |-> 0, calls |-> 0]
  /\ createReply = [s \in ScanIds |-> "none"]
  /\ cancelReply = [s \in ScanIds |-> "none"]
  /\ sitemap = locs
  /\ resolved = NotResolved
  /\ bpc = "idle"
  /\ burls = <<>>
  /\ bcallback = "none"
  /\ bi = 0
  /\ bresults = <<>>
  /\ bok = {}

Init == Start(0, <<>>)

\* ------------------------------------------------------------- helpers
ActiveJobs == {k \in ScanIds : job[k].state = "active"}

\* control passes to the catch block of the processor with error msg
Throw(j, msg) ==
  /\ pc' = [pc EXCEPT ![j] = "catch"]
  /\ thrown' = [thrown EXCEPT ![j] = msg]

\* a call to the database or to Redis rejects
Fault == faults < MaxFaults /\ faults' = faults + 1

\* CreditService.getCreditBalance: the amount, a record with 0 created if none
getCreditBalance(c) == IF c = NoRecord THEN 0 ELSE c

\* --------------------------------------------------- ScanService.createScan
\* mutant: the Scan row is created before the probe and the credit check
CreateScanRejected_rowFirst(s) ==
  /\ scan[s].status = "none" /\ createReply[s] = "none"
  /\ \A k \in ScanIds : k < s => scan[k].status # "none"
  /\ scan' = [scan EXCEPT ![s] = [status |-> "pending", totalUrls |-> 0,
                                  finishedAt |-> FALSE, errorMsg |-> NoMsg]]
  /\ \/ /\ createReply' = [createReply EXCEPT ![s] = "NotAccessible"]
        /\ UNCHANGED credit
     \/ /\ getCreditBalance(credit) = 0
        /\ credit' = getCreditBalance(credit)
        /\ createReply' = [createReply EXCEPT ![s] = "InsufficientCredits"]
  /\ UNCHANGED <<scanResult, job, pc, urls, results, thrown, cancelling,
                 faults, cancels, att, cancelReply>>
  /\ UNCHANGED <<lvars, bvars>>

\* createScan fails: getSitemapInfo reports the sitemap not accessible, or
\* getCreditBalance (which creates a missing record) returns amount 0
CreateScanRejected(s) ==
  /\ scan[s].status = "none" /\ createReply[s] = "none"
  /\ \A k \in ScanIds : k < s => scan[k].status # "none"
  /\ \/ /\ createReply' = [createReply EXCEPT ![s] = "NotAccessible"]
        /\ UNCHANGED credit
     \/ /\ getCreditBalance(credit) = 0
        /\ credit' = getCreditBalance(credit)
        /\ createReply' = [createReply EXCEPT ![s] = "InsufficientCredits"]
  /\ UNCHANGED <<scan, scanResult, job, pc, urls, results, thrown, cancelling,
                 faults, cancels, att, cancelReply>>
  /\ UNCHANGED <<lvars, bvars>>

\* mutant: createScan takes a credit when it creates the Scan
CreateScan_charging(s) ==
  /\ scan[s].status = "none" /\ createReply[s] = "none"
  /\ \A k \in ScanIds : k < s => scan[k].status # "none"
  /\ credit # NoRecord /\ credit # 0
  /\ scan' = [scan EXCEPT ![s] = [status |-> "pending", totalUrls |-> 0,
                                  finishedAt |-> FALSE, errorMsg |-> NoMsg]]
  /\ credit' = credit - 1
  /\ createReply' = [createReply EXCEPT ![s] = "queueing"]
  /\ UNCHANGED <<scanResult, job, pc, urls, results, thrown, cancelling,
                 faults, cancels, att, cancelReply>>
  /\ UNCHANGED <<lvars, bvars>>

\* probe, preliminary credit check, db.scan.create with status pending
CreateScan(s) ==
  /\ scan[s].status = "none" /\ createReply[s] = "none"
  /\ \A k \in ScanIds : k < s => scan[k].status # "none"
  /\ credit # NoRecord /\ credit # 0
  /\ scan' = [scan EXCEPT ![s] = [status |-> "pending", totalUrls |-> 0,
                                  finishedAt |-> FALSE, errorMsg |-> NoMsg]]
  /\ createReply' = [createReply EXCEPT ![s] = "queueing"]
  /\ UNCHANGED <<scanResult, credit, job, pc, urls, results, thrown, cancelling,
                 faults, cancels, att, cancelReply>>
  /\ UNCHANGED <<lvars, bvars>>

\* createScan, addScanJob: scanQueue.add, then the scan and the job are
\* returned; when the add rejects createScan throws
AddScanJob(s) ==
  /\ createReply[s] = "queueing"
  /\ \/ /\ job' = [job EXCEPT ![s] = [state |-> "waiting", attemptsMade |-> 0,
                                      progress |-> 0]]
        /\ createReply' = [createReply EXCEPT ![s] = "returned"]
        /\ UNCHANGED faults
     \/ /\ Fault
        /\ createReply' = [createReply EXCEPT ![s] = "QueueError"]
        /\ UNCHANGED job
  /\ UNCHANGED <<scan, scanResult, credit, pc, urls, results, thrown, cancelling,
                 cancels, att, cancelReply>>
  /\ UNCHANGED <<lvars, bvars>>

\* --------------------------------------------------- ScanService.cancelScan
\* findFirst by id and owner finds the Scan, its status is pending or processing
CancelRead(s, u) ==
  /\ u = Owner
  /\ scan[s].status \in {"pending", "processing"}
  /\ ~cancelling[s]
  /\ cancels < MaxCancels
  /\ cancelling' = [cancelling EXCEPT ![s] = TRUE]
  /\ cancels' = cancels + 1
  /\ cancelReply' = [cancelReply EXCEPT ![s] = "none"]
  /\ UNCHANGED <<scan, scanResult, credit, job, pc, urls, results, thrown, faults,
                 att, createReply>>
  /\ UNCHANGED <<lvars, bvars>>

\* findFirst by id and owner finds nothing: NotFoundError; the Scan found has
\* another status: ConflictError
CancelRejected(s, u) ==
  /\ ~cancelling[s]
  /\ cancels < MaxCancels
  /\ cancels' = cancels + 1
  /\ \/ /\ u # Owner \/ scan[s].status = "none"
        /\ cancelReply' = [cancelReply EXCEPT ![s] = "NotFound"]
     \/ /\ u = Owner
        /\ scan[s].status \in {"success", "failed"}
        /\ cancelReply' = [cancelReply EXCEPT ![s] = "Conflict"]
  /\ UNCHANGED <<scan, scanResult, credit, job, pc, urls, results, thrown, faults,
                 att, cancelling, createReply>>
  /\ UNCHANGED <<lvars, bvars>>

\* db.scan.update: status failed
CancelWrite(s) ==
  /\ cancelling[s]
  /\ cancelling' = [cancelling EXCEPT ![s] = FALSE]
  /\ scan' = [scan EXCEPT ![s].status = "failed", ![s].finishedAt = TRUE,
                          ![s].errorMsg = CancelledMsg]
  /\ cancelReply' = [cancelReply EXCEPT ![s] = "ok"]
  /\ UNCHANGED <<scanResult, credit, job, pc, urls, results, thrown, faults, cancels,
                 att, createReply>>
  /\ UNCHANGED <<lvars, bvars>>

\* ------------------------------------------------------------ job queue
\* the worker takes a waiting job while fewer than Concurrency jobs are active
Dispatch(j) ==
  /\ job[j].state = "waiting"
  /\ Cardinality(ActiveJobs) < Concurrency
  /\ job' = [job EXCEPT ![j].state = "active"]
  /\ pc' = [pc EXCEPT ![j] = "setProcessing"]
  /\ UNCHANGED <<scan, scanResult, credit, urls, results, thrown, cancelling,
                 faults, cancels, att>>
  /\ UNCHANGED <<lvars, avars, bvars>>

\* getScanJobStatus(jobId): what it reports of the job
getScanJobStatus(j) ==
  IF job[j].state \in {"none", "removed"} THEN [exists |-> FALSE]
  ELSE [exists |-> TRUE, state |-> job[j].state, progress |-> job[j].progress,
        attempts |-> job[j].attemptsMade, maxAttempts |-> Attempts]

\* cancelScanJob(jobId) returns true: getJob finds the job, job.remove()
\* (remove rejects for a job that a worker holds)
CancelScanJob(j) ==
  /\ job[j].state \notin {"none", "removed", "active"}
  /\ job' = [job EXCEPT ![j].state = "removed"]
  /\ UNCHANGED <<scan, scanResult, credit, pc, urls, results, thrown, cancelling,
                 faults, cancels, att>>
  /\ UNCHANGED <<lvars, avars, bvars>>

\* the backoff delay of a failed attempt has elapsed
BackoffElapsed(j) ==
  /\ job[j].state = "delayed"
  /\ job' = [job EXCEPT ![j].state = "waiting"]
  /\ UNCHANGED <<scan, scanResult, credit, pc, urls, results, thrown, cancelling,
                 faults, cancels, att>>
  /\ UNCHANGED <<lvars, avars, bvars>>

\* ------------------------------------------------- scanWorker processor
\* try: db.scan.update status processing; job.updateProgress(10)
SetProcessing(j) ==
  /\ pc[j] = "setProcessing"
  /\ \/ /\ scan' = [scan EXCEPT ![j].status = "processing"]
        /\ job' = [job EXCEPT ![j].progress = 10]
        /\ pc' = [pc EXCEPT ![j] = "resolve"]
        /\ UNCHANGED <<thrown, faults>>
     \/ /\ Fault
        /\ Throw(j, DbError)
        /\ UNCHANGED <<scan, job>>
     \/ /\ Fault
        /\ scan' = [scan EXCEPT ![j].status = "processing"]
        /\ Throw(j, RedisError)
        /\ UNCHANGED job
  /\ UNCHANGED <<scanResult, credit, urls, results, cancelling, cancels, att>>
  /\ UNCHANGED <<lvars, avars, bvars>>

\* validateAndParseSitemap; throw when the sitemap is not valid (whether the
\* sitemap can be fetched and parsed is a condition of the site)
Resolve(j) ==
  /\ pc[j] = "resolve"
  /\ \/ /\ \E l \in ResolvedLists : urls' = [urls EXCEPT ![j] = l]
        /\ pc' = [pc EXCEPT ![j] = "setTotal"]
        /\ UNCHANGED thrown
        /\ UNCHANGED faults
     \/ /\ Throw(j, ResolverError)
        /\ UNCHANGED <<urls, faults>>
  /\ UNCHANGED <<scan, scanResult, credit, job, results, cancelling, cancels, att>>
  /\ UNCHANGED <<lvars, avars, bvars>>

\* db.scan.update totalUrls; job.updateProgress(20)
SetTotal(j) ==
  /\ pc[j] = "setTotal"
  /\ \/ /\ scan' = [scan EXCEPT ![j].totalUrls = Len(urls[j])]
        /\ job' = [job EXCEPT ![j].progress = 20]
        /\ pc' = [pc EXCEPT ![j] = "check"]
        /\ UNCHANGED <<thrown, faults>>
     \/ /\ Fault
        /\ Throw(j, DbError)
        /\ UNCHANGED <<scan, job>>
     \/ /\ Fault
        /\ scan' = [scan EXCEPT ![j].totalUrls = Len(urls[j])]
        /\ Throw(j, RedisError)
        /\ UNCHANGED job
  /\ UNCHANGED <<scanResult, credit, urls, results, cancelling, cancels, att>>
  /\ UNCHANGED <<lvars, avars, bvars>>

\* mutant: the batch starts right after the credit check, without deduction
CheckCredits_noDeduct(j) ==
  /\ pc[j] = "check"
  /\ \/ /\ credit' = getCreditBalance(credit)
        /\ IF getCreditBalance(credit) >= Len(urls[j])
           THEN pc' = [pc EXCEPT ![j] = "validate"] /\ UNCHANGED thrown
           ELSE Throw(j, InsufficientMsg(Len(urls[j]), getCreditBalance(credit)))
        /\ UNCHANGED faults
     \/ /\ Fault
        /\ Throw(j, DbError)
        /\ UNCHANGED credit
  /\ UNCHANGED <<scan, scanResult, job, urls, results, cancelling, cancels, att>>
  /\ UNCHANGED <<lvars, avars, bvars>>

\* creditService.checkSufficientCredits(userId, urls.length)
CheckCredits(j) ==
  /\ pc[j] = "check"
  /\ \/ /\ credit' = getCreditBalance(credit)
        /\ IF getCreditBalance(credit) >= Len(urls[j])
           THEN pc' = [pc EXCEPT ![j] = "deductRead"] /\ UNCHANGED thrown
           ELSE Throw(j, InsufficientMsg(Len(urls[j]), getCreditBalance(credit)))
        /\ UNCHANGED faults
     \/ /\ Fault
        /\ Throw(j, DbError)
        /\ UNCHANGED credit
  /\ UNCHANGED <<scan, scanResult, job, urls, results, cancelling, cancels, att>>
  /\ UNCHANGED <<lvars, avars, bvars>>

\* the guard of the deductCredits transaction on the amount it has read
deductAllowed(amount, current) == current # NoRecord /\ current >= amount

\* creditService.deductCredits, first statement of the transaction:
\* findUnique, then the two InsufficientCreditsError checks
DeductRead(j) ==
  /\ pc[j] = "deductRead"
  /\ \/ /\ Len(urls[j]) > 0
        /\ IF deductAllowed(Len(urls[j]), credit)
           THEN pc' = [pc EXCEPT ![j] = "deductWrite"] /\ UNCHANGED thrown
           ELSE Throw(j, IF credit = NoRecord THEN NoAccountMsg
                         ELSE InsufficientMsg(Len(urls[j]), credit))
        /\ UNCHANGED faults
     \/ /\ Fault
        /\ Throw(j, DbError)
  /\ UNCHANGED <<scan, scanResult, credit, job, urls, results, cancelling, cancels, att>>
  /\ UNCHANGED <<lvars, avars, bvars>>

\* second statement of the transaction: update amount decrement, commit;
\* then job.updateProgress(30)
DeductWrite(j) ==
  /\ pc[j] = "deductWrite"
  /\ credit' = credit - Len(urls[j])
  /\ att' = [att EXCEPT ![j].deducted = @ + Len(urls[j]),
                        ![j].charged = @ + Len(urls[j])]
  /\ \/ /\ job' = [job EXCEPT ![j].progress = 30]
        /\ pc' = [pc EXCEPT ![j] = "validate"]
        /\ UNCHANGED <<thrown, faults>>
     \/ /\ Fault
        /\ Throw(j, RedisError)
        /\ UNCHANGED job
  /\ UNCHANGED <<scan, scanResult, urls, results, cancelling, cancels>>
  /\ UNCHANGED <<lvars, avars, bvars>>

\* validateUrls, loop body when i > 0: the 1000 ms timer has elapsed
Delay(j) ==
  /\ pc[j] = "validate"
  /\ Len(results[j]) < Len(urls[j])
  /\ Len(results[j]) > 0
  /\ pc' = [pc EXCEPT ![j] = "delayed"]
  /\ UNCHANGED <<scan, scanResult, credit, job, urls, results, thrown, cancelling,
                 faults, cancels, att>>
  /\ UNCHANGED <<lvars, avars, bvars>>

\* mutant: the call for the next URL starts without the delay
ValidateCall_noDelay(j) ==
  /\ pc[j] \in {"validate", "delayed"}
  /\ Len(results[j]) < Len(urls[j])
  /\ pc' = [pc EXCEPT ![j] = "inflight"]
  /\ UNCHANGED <<scan, scanResult, credit, job, urls, results, thrown, cancelling,
                 faults, cancels, att>>
  /\ UNCHANGED <<lvars, avars, bvars>>

\* validateUrls, loop body: the call validateUrl(url) starts, at once for the
\* first URL and after the delay for the others
ValidateCall(j) ==
  /\ \/ pc[j] = "validate" /\ Len(results[j]) = 0
     \/ pc[j] = "delayed"
  /\ Len(results[j]) < Len(urls[j])
  /\ pc' = [pc EXCEPT ![j] = "inflight"]
  /\ UNCHANGED <<scan, scanResult, credit, job, urls, results, thrown, cancelling,
                 faults, cancels, att>>
  /\ UNCHANGED <<lvars, avars, bvars>>

\* mutant: the synthetic result does not carry the URL of the failed call
batchResult_noUrl(msgs, url) ==
  IF msgs = <<"throws">> THEN failedResult(0) ELSE processW3CResult(msgs, url)

\* what validateUrls pushes for urls[i] when validateUrl returns the response
\* msgs, or throws (msgs = "throws")
batchResult(msgs, url) ==
  IF msgs = <<"throws">> THEN failedResult(url) ELSE processW3CResult(msgs, url)

\* mutant: an error of validateUrl leaves validateUrls and reaches the
\* catch block of the processor
ValidateReturn_abort(j) ==
  /\ pc[j] = "inflight"
  /\ LET i == Len(results[j]) + 1 IN
       \/ /\ \E msgs \in PageResponses(urls[j][i]) :
               results' = [results EXCEPT ![j] =
                 Append(@, batchResult(msgs, urls[j][i]))]
          /\ job' = [job EXCEPT ![j].progress = overallProgress(i, Len(urls[j]))]
          /\ pc' = [pc EXCEPT ![j] = "validate"]
          /\ UNCHANGED <<thrown, faults>>
       \/ /\ Fault
          /\ Throw(j, <<"W3C validation failed">>)
          /\ UNCHANGED <<results, job>>
  /\ UNCHANGED <<scan, scanResult, credit, urls, cancelling, cancels, att>>
  /\ UNCHANGED <<lvars, avars, bvars>>

\* validateUrl(url) returns or throws; results.push; progressCallback
ValidateReturn(j) ==
  /\ pc[j] = "inflight"
  /\ LET i == Len(results[j]) + 1 IN
       /\ \/ /\ \E msgs \in PageResponses(urls[j][i]) :
                  results' = [results EXCEPT ![j] =
                    Append(@, batchResult(msgs, urls[j][i]))]
             /\ UNCHANGED faults
             /\ UNCHANGED att
          \/ /\ Fault
             /\ results' = [results EXCEPT ![j] =
                    Append(@, batchResult(<<"throws">>, urls[j][i]))]
             /\ att' = [att EXCEPT ![j].threw = @ \cup {i}]
       /\ job' = [job EXCEPT ![j].progress = overallProgress(i, Len(urls[j]))]
  /\ pc' = [pc EXCEPT ![j] = "validate"]
  /\ UNCHANGED <<scan, scanResult, credit, urls, thrown, cancelling, cancels>>
  /\ UNCHANGED <<lvars, avars, bvars>>

\* validateUrls returns its results; job.updateProgress(90)
FinishBatch(j) ==
  /\ pc[j] = "validate"
  /\ Len(results[j]) >= Len(urls[j])
  /\ \/ /\ job' = [job EXCEPT ![j].progress = 90]
        /\ pc' = [pc EXCEPT ![j] = "persist"]
        /\ UNCHANGED <<thrown, faults>>
     \/ /\ Fault
        /\ Throw(j, RedisError)
        /\ UNCHANGED job
  /\ UNCHANGED <<scan, scanResult, credit, urls, results, cancelling, cancels, att>>
  /\ UNCHANGED <<lvars, avars, bvars>>

\* mutant: the row of the last result is not stored
Persist_dropLast(j) ==
  /\ pc[j] = "persist"
  /\ \/ /\ scanResult' = [scanResult EXCEPT ![j] =
               @ \o mapRows(SubSeq(results[j], 1, Len(results[j]) - 1))]
        /\ pc' = [pc EXCEPT ![j] = "setSuccess"]
        /\ UNCHANGED <<thrown, faults>>
     \/ /\ Fault
        /\ Throw(j, DbError)
        /\ UNCHANGED scanResult
  /\ UNCHANGED <<scan, credit, job, urls, results, cancelling, cancels, att>>
  /\ UNCHANGED <<lvars, avars, bvars>>

\* db.scanResult.createMany
Persist(j) ==
  /\ pc[j] = "persist"
  /\ \/ /\ scanResult' = [scanResult EXCEPT ![j] = @ \o mapRows(results[j])]
        /\ pc' = [pc EXCEPT ![j] = "setSuccess"]
        /\ UNCHANGED <<thrown, faults>>
     \/ /\ Fault
        /\ Throw(j, DbError)
        /\ UNCHANGED scanResult
  /\ UNCHANGED <<scan, credit, job, urls, results, cancelling, cancels, att>>
  /\ UNCHANGED <<lvars, avars, bvars>>

\* db.scan.update status success, finishedAt; job.updateProgress(100)
SetSuccess(j) ==
  /\ pc[j] = "setSuccess"
  /\ \/ /\ scan' = [scan EXCEPT ![j].status = "success", ![j].finishedAt = TRUE]
        /\ job' = [job EXCEPT ![j].progress = 100]
        /\ pc' = [pc EXCEPT ![j] = "return"]
        /\ UNCHANGED <<thrown, faults>>
     \/ /\ Fault
        /\ Throw(j, DbError)
        /\ UNCHANGED <<scan, job>>
     \/ /\ Fault
        /\ scan' = [scan EXCEPT ![j].status = "success", ![j].finishedAt = TRUE]
        /\ Throw(j, RedisError)
        /\ UNCHANGED job
  /\ UNCHANGED <<scanResult, credit, urls, results, cancelling, cancels, att>>
  /\ UNCHANGED <<lvars, avars, bvars>>

\* the processor returns: the queue marks the job completed
Return(j) ==
  /\ pc[j] = "return"
  /\ pc' = [pc EXCEPT ![j] = "idle"]
  /\ job' = [job EXCEPT ![j].state = "completed"]
  /\ urls' = [urls EXCEPT ![j] = <<>>]
  /\ results' = [results EXCEPT ![j] = <<>>]
  /\ att' = [att EXCEPT ![j] = EndAttempt(att[j])]
  /\ UNCHANGED <<scan, scanResult, credit, thrown, cancelling, faults, cancels>>
  /\ UNCHANGED <<lvars, avars, bvars>>

\* catch (error): db.scan.update status failed, finishedAt, errorMsg
Catch(j) ==
  /\ pc[j] = "catch"
  /\ \/ /\ scan' = [scan EXCEPT ![j].status = "failed", ![j].finishedAt = TRUE,
                                ![j].errorMsg = thrown[j]]
        /\ att' = [att EXCEPT ![j].caught = thrown[j]]
        /\ pc' = [pc EXCEPT ![j] = "refund"]
        /\ UNCHANGED <<thrown, faults>>
     \/ /\ Fault
        /\ att' = [att EXCEPT ![j].caught = thrown[j], ![j].escaped = "handler"]
        /\ thrown' = [thrown EXCEPT ![j] = DbError]
        /\ pc' = [pc EXCEPT ![j] = "rethrow"]
        /\ UNCHANGED scan
  /\ UNCHANGED <<scanResult, credit, job, urls, results, cancelling, cancels>>
  /\ UNCHANGED <<lvars, avars, bvars>>

\* the amount the catch block refunds, given the row read by findUnique
refundAmount(row) == IF row.totalUrls > 0 THEN row.totalUrls ELSE 0

\* CreditService.refundCredits -> addCredits: rejects amount <= 0 and
\* amount > 10000, else creates the record if missing and increments it
addCredits(c, amount) ==
  IF amount <= 0 \/ amount > MaxTopUp THEN c ELSE getCreditBalance(c) + amount

\* the amount a call has added to the balance (a missing record counts as 0)
credited(before, after) ==
  IF after = before THEN 0 ELSE after - getCreditBalance(before)

\* mutant: an error of the refund is left to propagate
Refund_propagates(j) ==
  /\ pc[j] = "refund"
  /\ \/ /\ credit' = addCredits(credit, refundAmount(scan[j]))
        /\ att' = [att EXCEPT ![j].refunded = @ + credited(credit, credit'),
                              ![j].charged = @ - credited(credit, credit'),
                              ![j].escaped = "original"]
        /\ UNCHANGED <<faults, thrown>>
     \/ /\ Fault
        /\ att' = [att EXCEPT ![j].escaped = "original"]
        /\ thrown' = [thrown EXCEPT ![j] = DbError]
        /\ UNCHANGED credit
  /\ pc' = [pc EXCEPT ![j] = "rethrow"]
  /\ UNCHANGED <<scan, scanResult, job, urls, results, cancelling, cancels>>
  /\ UNCHANGED <<lvars, avars, bvars>>

\* inner try: findUnique totalUrls; refundCredits when totalUrls > 0; an error
\* of either is logged only
Refund(j) ==
  /\ pc[j] = "refund"
  /\ \/ /\ credit' = addCredits(credit, refundAmount(scan[j]))
        /\ att' = [att EXCEPT ![j].refunded = @ + credited(credit, credit'),
                              ![j].charged = @ - credited(credit, credit'),
                              ![j].escaped = "original"]
        /\ UNCHANGED faults
     \/ /\ Fault
        /\ att' = [att EXCEPT ![j].escaped = "original"]
        /\ UNCHANGED credit
  /\ pc' = [pc EXCEPT ![j] = "rethrow"]
  /\ UNCHANGED <<scan, scanResult, job, urls, results, thrown, cancelling, cancels>>
  /\ UNCHANGED <<lvars, avars, bvars>>

\* mutant: the queue retries whatever the number of attempts made
Rethrow_unbounded(j) ==
  /\ pc[j] = "rethrow"
  /\ pc' = [pc EXCEPT ![j] = "idle"]
  /\ job' = [job EXCEPT ![j].attemptsMade = @ + 1, ![j].state = "delayed"]
  /\ urls' = [urls EXCEPT ![j] = <<>>]
  /\ results' = [results EXCEPT ![j] = <<>>]
  /\ thrown' = [thrown EXCEPT ![j] = NoMsg]
  /\ att' = [att EXCEPT ![j] = EndAttempt(att[j])]
  /\ UNCHANGED <<scan, scanResult, credit, cancelling, faults, cancels>>
  /\ UNCHANGED <<lvars, avars, bvars>>

\* throw error: the queue counts a failed attempt, and retries after a backoff
\* while attemptsMade < attempts
Rethrow(j) ==
  /\ pc[j] = "rethrow"
  /\ pc' = [pc EXCEPT ![j] = "idle"]
  /\ job' = [job EXCEPT ![j].attemptsMade = @ + 1,
                        ![j].state = IF job[j].attemptsMade + 1 < Attempts
                                     THEN "delayed" ELSE "failed"]
  /\ urls' = [urls EXCEPT ![j] = <<>>]
  /\ results' = [results EXCEPT ![j] = <<>>]
  /\ thrown' = [thrown EXCEPT ![j] = NoMsg]
  /\ att' = [att EXCEPT ![j] = EndAttempt(att[j])]
  /\ UNCHANGED <<scan, scanResult, credit, cancelling, faults, cancels>>
  /\ UNCHANGED <<lvars, avars, bvars>>

\* --------------------------------------------------------- specification
\* the life of one scan and of its job
FirstScan == {s \in ScanIds : \A k \in ScanIds : s <= k}

Next ==
  \/ \E j \in FirstScan : CreateScanRejected(j)
  \/ \E j \in FirstScan : CreateScan(j)
  \/ \E j \in FirstScan : AddScanJob(j)
  \/ \E j \in FirstScan, u \in Users : CancelRead(j, u)
  \/ \E j \in FirstScan : CancelWrite(j)
  \/ \E j \in FirstScan : Dispatch(j)
  \/ \E j \in FirstScan : BackoffElapsed(j)
  \/ \E j \in FirstScan : SetProcessing(j)
  \/ \E j \in FirstScan : Resolve(j)
  \/ \E j \in FirstScan : SetTotal(j)
  \/ \E j \in FirstScan : CheckCredits(j)
  \/ \E j \in FirstScan : DeductRead(j)
  \/ \E j \in FirstScan : DeductWrite(j)
  \/ \E j \in FirstScan : Delay(j)
  \/ \E j \in FirstScan : ValidateCall(j)
  \/ \E j \in FirstScan : ValidateReturn(j)
  \/ \E j \in FirstScan : FinishBatch(j)
  \/ \E j \in FirstScan : Persist(j)
  \/ \E j \in FirstScan : SetSuccess(j)
  \/ \E j \in FirstScan : Return(j)
  \/ \E j \in FirstScan : Catch(j)
  \/ \E j \in FirstScan : Refund(j)
  \/ \E j \in FirstScan : Rethrow(j)

Spec == Init /\ [][Next]_vars

\* a step of the queue or of the worker on the job of the scan
WorkerStep ==
  \E j \in FirstScan :
    \/ Dispatch(j) \/ BackoffElapsed(j) \/ SetProcessing(j) \/ Resolve(j)
    \/ SetTotal(j) \/ CheckCredits(j) \/ DeductRead(j) \/ DeductWrite(j)
    \/ Delay(j) \/ ValidateCall(j) \/ ValidateReturn(j) \/ FinishBatch(j)
    \/ Persist(j) \/ SetSuccess(j) \/ Return(j) \/ Catch(j) \/ Refund(j)
    \/ Rethrow(j)

\* the worker runs as long as a job can be taken or has a step to take
FairSpec == Init /\ [][Next]_vars /\ WF_vars(WorkerStep)

\* all the scans of the user, created and then processed concurrently by
\* the worker (concurrency 2); nobody cancels
PoolNext ==
  \/ \E j \in ScanIds : CreateScan(j)
  \/ \E j \in ScanIds : AddScanJob(j)
  \/ \E j \in ScanIds : Dispatch(j)
  \/ \E j \in ScanIds : BackoffElapsed(j)
  \/ \E j \in ScanIds : SetProcessing(j)
  \/ \E j \in ScanIds : Resolve(j)
  \/ \E j \in ScanIds : SetTotal(j)
  \/ \E j \in ScanIds : CheckCredits(j)
  \/ \E j \in ScanIds : DeductRead(j)
  \/ \E j \in ScanIds : DeductWrite(j)
  \/ \E j \in ScanIds : Delay(j)
  \/ \E j \in ScanIds : ValidateCall(j)
  \/ \E j \in ScanIds : ValidateReturn(j)
  \/ \E j \in ScanIds : FinishBatch(j)
  \/ \E j \in ScanIds : Persist(j)
  \/ \E j \in ScanIds : SetSuccess(j)
  \/ \E j \in ScanIds : Return(j)
  \/ \E j \in ScanIds : Catch(j)
  \/ \E j \in ScanIds : Refund(j)
  \/ \E j \in ScanIds : Rethrow(j)

\* the pool with one rejection of a database or Redis call left
PoolInit == Start(MaxFaults - 1, <<>>)

SpecPool == PoolInit /\ [][PoolNext]_vars

\* one scan, with the rejected cancelScan calls and the removal of its job
ApiNext ==
  \/ Next
  \/ \E j \in FirstScan, u \in Users : CancelRejected(j, u)
  \/ \E j \in FirstScan : CancelScanJob(j)

SpecApi == Init /\ [][ApiNext]_vars

\* ----------------------------------------- resolver and batch on their own
\* validateAndParseSitemap(sitemapUrl): fetchSitemap fails, or the sitemap is
\* parsed
ResolveSitemap ==
  /\ resolved.state = "none"
  /\ \/ resolved' = validateAndParseSitemap(sitemap)
     \/ resolved' = [state |-> "done", isValid |-> FALSE, urls |-> <<>>,
                     error |-> ResolverError]
  /\ UNCHANGED <<sitemap, bpc, burls, bcallback, bi, bresults, bok>>
  /\ UNCHANGED <<credit, lvars>>
  /\ UNCHANGED <<scan, scanResult, job, pc, urls, results, thrown, cancelling,
                 faults, cancels, att, createReply, cancelReply>>

\* the processor passes sitemapValidation.urls and its progressCallback,
\* which does not throw, to validateUrls
HandOver ==
  /\ resolved.state = "done"
  /\ resolved.isValid
  /\ bpc = "idle"
  /\ bpc' = "loop"
  /\ burls' = resolved.urls
  /\ bcallback' = "returns"
  /\ UNCHANGED <<sitemap, resolved, bi, bresults, bok>>
  /\ UNCHANGED <<credit, lvars>>
  /\ UNCHANGED <<scan, scanResult, job, pc, urls, results, thrown, cancelling,
                 faults, cancels, att, createReply, cancelReply>>

\* a caller calls validateUrls(urls, progressCallback) with no callback, with
\* one that returns or with one that can throw
CallValidateUrls ==
  /\ bpc = "idle"
  /\ resolved.state = "none"
  /\ bpc' = "loop"
  /\ \E l \in ResolvedLists \cup {<<>>} : burls' = l
  /\ \E cb \in {"none", "returns", "throws"} : bcallback' = cb
  /\ UNCHANGED <<sitemap, resolved, bi, bresults, bok>>
  /\ UNCHANGED <<credit, lvars>>
  /\ UNCHANGED <<scan, scanResult, job, pc, urls, results, thrown, cancelling,
                 faults, cancels, att, createReply, cancelReply>>

\* try: validateUrl(url) returns and results.push(result), or it throws
BatchValidateUrl ==
  /\ bpc = "loop"
  /\ bi < Len(burls)
  /\ \/ /\ \E msgs \in Responses :
             bresults' = Append(bresults, batchResult(msgs, burls[bi + 1]))
        /\ bok' = bok \cup {bi + 1}
        /\ IF bcallback = "none"
           THEN bi' = bi + 1 /\ UNCHANGED bpc
           ELSE bpc' = "callback" /\ UNCHANGED bi
     \/ /\ bpc' = "catch"
        /\ UNCHANGED <<bresults, bok, bi>>
  /\ UNCHANGED <<sitemap, resolved, burls, bcallback>>
  /\ UNCHANGED <<credit, lvars>>
  /\ UNCHANGED <<scan, scanResult, job, pc, urls, results, thrown, cancelling,
                 faults, cancels, att, createReply, cancelReply>>

\* try: progressCallback({completed, total, current, result}) returns, or it
\* throws and control passes to the catch of the same iteration
BatchCallback ==
  /\ bpc = "callback"
  /\ \/ bpc' = "loop" /\ bi' = bi + 1
     \/ bcallback = "throws" /\ bpc' = "catch" /\ UNCHANGED bi
  /\ UNCHANGED <<sitemap, resolved, burls, bcallback, bresults, bok>>
  /\ UNCHANGED <<credit, lvars>>
  /\ UNCHANGED <<scan, scanResult, job, pc, urls, results, thrown, cancelling,
                 faults, cancels, att, createReply, cancelReply>>

\* catch (error): results.push(failedResult), errors.push(error)
BatchCatch ==
  /\ bpc = "catch"
  /\ bresults' = Append(bresults, batchResult(<<"throws">>, burls[bi + 1]))
  /\ IF bcallback = "none"
     THEN bpc' = "loop" /\ bi' = bi + 1
     ELSE bpc' = "catchCallback" /\ UNCHANGED bi
  /\ UNCHANGED <<sitemap, resolved, burls, bcallback, bok>>
  /\ UNCHANGED <<credit, lvars>>
  /\ UNCHANGED <<scan, scanResult, job, pc, urls, results, thrown, cancelling,
                 faults, cancels, att, createReply, cancelReply>>

\* catch: progressCallback({..., error}) returns, or it throws and its
\* error leaves validateUrls
BatchCatchCallback ==
  /\ bpc = "catchCallback"
  /\ \/ bpc' = "loop" /\ bi' = bi + 1
     \/ bcallback = "throws" /\ bpc' = "rejected" /\ UNCHANGED bi
  /\ UNCHANGED <<sitemap, resolved, burls, bcallback, bresults, bok>>
  /\ UNCHANGED <<credit, lvars>>
  /\ UNCHANGED <<scan, scanResult, job, pc, urls, results, thrown, cancelling,
                 faults, cancels, att, createReply, cancelReply>>

\* the loop has ended: return results
BatchReturn ==
  /\ bpc = "loop"
  /\ bi >= Len(burls)
  /\ bpc' = "returned"
  /\ UNCHANGED <<sitemap, resolved, burls, bcallback, bi, bresults, bok>>
  /\ UNCHANGED <<credit, lvars>>
  /\ UNCHANGED <<scan, scanResult, job, pc, urls, results, thrown, cancelling,
                 faults, cancels, att, createReply, cancelReply>>

BatchNext ==
  \/ CallValidateUrls
  \/ BatchValidateUrl
  \/ BatchCallback
  \/ BatchCatch
  \/ BatchCatchCallback
  \/ BatchReturn

SpecBatch == Init /\ [][BatchNext]_vars

\* the resolver applied to a sitemap, its list handed to the batch
ResolverInit == \E locs \in Sitemaps : Start(0, locs) /\ credit = InitCredit

ResolverNext ==
  \/ ResolveSitemap
  \/ HandOver
  \/ BatchValidateUrl
  \/ BatchCallback
  \/ BatchCatch
  \/ BatchCatchCallback
  \/ BatchReturn

SpecResolver == ResolverInit /\ [][ResolverNext]_vars

\* ------------------------------------------ CreditService called directly
\* callers of the credit service on the balance of one user; every statement
\* of a $transaction callback is a step of its own: the client is built
\* without an isolation level, so PostgreSQL runs it READ COMMITTED
pvars == <<scan, scanResult, job, pc, urls, results, thrown, cancelling,
           faults, cancels, att, createReply, cancelReply, bvars>>

\* deductCredits(userId, a): amount check, findUnique, InsufficientCreditsError
LedgerDeductRead(c, a) ==
  /\ lpc[c] = "idle"
  /\ lsum.calls < MaxCallers * MaxCalls
  /\ lsum' = [lsum EXCEPT !.calls = @ + 1]
  /\ IF a <= 0
     THEN /\ lres' = [lres EXCEPT ![c] = "Error"]
          /\ UNCHANGED <<lpc, lamt>>
     ELSE IF deductAllowed(a, credit)
     THEN /\ lpc' = [lpc EXCEPT ![c] = "deductWrite"]
          /\ lamt' = [lamt EXCEPT ![c] = a]
          /\ lres' = [lres EXCEPT ![c] = "none"]
     ELSE /\ lres' = [lres EXCEPT ![c] = "InsufficientCredits"]
          /\ UNCHANGED <<lpc, lamt>>
  /\ UNCHANGED <<credit, pvars>>

\* deductCredits: update amount decrement, commit
LedgerDeductWrite(c) ==
  /\ lpc[c] = "deductWrite"
  /\ credit' = credit - lamt[c]
  /\ lsum' = [lsum EXCEPT !.deducted = @ + lamt[c]]
  /\ lpc' = [lpc EXCEPT ![c] = "idle"]
  /\ lamt' = [lamt EXCEPT ![c] = 0]
  /\ lres' = [lres EXCEPT ![c] = "ok"]
  /\ UNCHANGED pvars

\* the amounts passed to refundCredits: the small ones and one above the
\* ceiling of addCredits
RefundAmounts == 0..MaxAmount \cup {MaxTopUp + 1}

\* refundCredits(userId, a) is called
LedgerRefundCall(c, a) ==
  /\ lpc[c] = "idle"
  /\ lsum.calls < MaxCallers * MaxCalls
  /\ lsum' = [lsum EXCEPT !.calls = @ + 1]
  /\ lpc' = [lpc EXCEPT ![c] = "refund"]
  /\ lamt' = [lamt EXCEPT ![c] = a]
  /\ lres' = [lres EXCEPT ![c] = "none"]
  /\ UNCHANGED <<credit, pvars>>

\* refundCredits -> addCredits(userId, a): amount checks, then the transaction
LedgerRefund(c) ==
  /\ lpc[c] = "refund"
  /\ credit' = addCredits(credit, lamt[c])
  /\ lsum' = [lsum EXCEPT !.added =
               IF credit' = credit THEN @ ELSE @ + (credit' - getCreditBalance(credit))]
  /\ lres' = [lres EXCEPT ![c] =
               IF lamt[c] <= 0 \/ lamt[c] > MaxTopUp THEN "Error" ELSE "ok"]
  /\ lpc' = [lpc EXCEPT ![c] = "idle"]
  /\ lamt' = [lamt EXCEPT ![c] = 0]
  /\ UNCHANGED pvars

\* checkSufficientCredits(userId, a) -> getCreditBalance: findUnique; with a
\* record the answer is hasSufficient = (amount >= a)
LedgerCheckRead(c, a) ==
  /\ lpc[c] = "idle"
  /\ lsum.calls < MaxCallers * MaxCalls
  /\ lsum' = [lsum EXCEPT !.calls = @ + 1]
  /\ lamt' = [lamt EXCEPT ![c] = IF credit = NoRecord THEN a ELSE 0]
  /\ lpc' = [lpc EXCEPT ![c] = IF credit = NoRecord THEN "checkCreate" ELSE "idle"]
  /\ lres' = [lres EXCEPT ![c] =
               IF credit = NoRecord THEN "none"
               ELSE IF credit >= a THEN "hasSufficient" ELSE "deficit"]
  /\ UNCHANGED <<credit, pvars>>

\* getCreditBalance, no record found: db.credit.create with amount 0 (it
\* rejects when another call has created the record meanwhile)
LedgerCheckCreate(c) ==
  /\ lpc[c] = "checkCreate"
  /\ credit' = getCreditBalance(credit)
  /\ lres' = [lres EXCEPT ![c] =
               IF credit # NoRecord THEN "Error"
               ELSE IF 0 >= lamt[c] THEN "hasSufficient" ELSE "deficit"]
  /\ lpc' = [lpc EXCEPT ![c] = "idle"]
  /\ lamt' = [lamt EXCEPT ![c] = 0]
  /\ UNCHANGED <<lsum, pvars>>

LedgerNext ==
  \/ \E c \in Callers, a \in 0..MaxAmount : LedgerDeductRead(c, a)
  \/ \E c \in Callers : LedgerDeductWrite(c)
  \/ \E c \in Callers, a \in RefundAmounts : LedgerRefundCall(c, a)
  \/ \E c \in Callers : LedgerRefund(c)
  \/ \E c \in Callers, a \in 0..MaxAmount : LedgerCheckRead(c, a)
  \/ \E c \in Callers : LedgerCheckCreate(c)

SpecLedger == Init /\ [][LedgerNext]_vars

\* ================================================================ claims

\* C1 (as claimed): the status of a Scan only moves forward along
\* pending -> processing -> success | failed (a cancelled pending scan may go
\* to failed directly), and a status success or failed never changes again.
StatusStep(a, b) ==
  \/ a = b
  \/ a = "none" /\ b = "pending"
  \/ a = "pending" /\ b \in {"processing", "failed"}
  \/ a = "processing" /\ b \in {"success", "failed"}

C1_StatusMonotonic ==
  [][\A s \in ScanIds : StatusStep(scan[s].status, scan'[s].status)]_vars

\* C2 (as claimed): whatever the interleaving of the deductCredits calls, the
\* balance is never negative and the successful deductions never exceed the
\* initial balance plus the refunds.
C2_BalanceNonNegative ==
  /\ credit # NoRecord => credit >= 0
  /\ lsum.deducted <= lsum.initial + lsum.added

\* C3 (as claimed): an attempt that deducted N credits and then failed has
\* refunded exactly N credits when its failure handler is over.
C3_RefundConservation ==
  \A j \in ScanIds :
    (pc[j] = "rethrow" /\ att[j].deducted > 0) => att[j].refunded = att[j].deducted

\* C4 (as claimed): an attempt that failed before the deduction step has
\* refunded nothing when its failure handler is over.
C4_NoRefundWithoutDeduction ==
  \A j \in ScanIds :
    (pc[j] = "rethrow" /\ att[j].deducted = 0) => att[j].refunded = 0

\* C5 (as claimed): no attempt deducts credits for a scan while credits that
\* an earlier attempt deducted for it have not been given back.
C5_NoDoubleDeduct ==
  [][\A j \in ScanIds : att'[j].charged > att[j].charged => att[j].charged <= 0]_vars

\* C6 (as claimed): the processor never propagates an error to the queue, so
\* the queue never counts a failed attempt.
C6_NoErrorReachesQueue ==
  \A j \in ScanIds : job[j].attemptsMade = 0 /\ job[j].state \notin {"delayed", "failed"}

\* C6 (amended): when the processor is about to throw, the error it throws is
\* the error its catch block caught (failure handling done, an error of the
\* refund never takes its place), or else the error of the catch block's own
\* status update.
C6_HandledThenRethrown ==
  \A j \in ScanIds : pc[j] = "rethrow" =>
    \/ att[j].escaped = "original" /\ thrown[j] = att[j].caught /\ thrown[j] # NoMsg
    \/ att[j].escaped = "handler" /\ thrown[j] = DbError

\* C6 witness: an attempt whose refund failed is about to rethrow the error
\* it caught.
C6_Witness ==
  \E j \in ScanIds :
    /\ pc[j] = "rethrow" /\ att[j].escaped = "original"
    /\ scan[j].totalUrls > 0 /\ att[j].refunded = 0
    /\ thrown[j] = RedisError

\* C7 (as claimed): when the failure handler of an attempt is over, the Scan
\* has status failed, finishedAt set and the message of the caught error.
C7_FailedRecorded ==
  \A j \in ScanIds : pc[j] = "rethrow" =>
    /\ scan[j].status = "failed"
    /\ scan[j].finishedAt
    /\ scan[j].errorMsg = att[j].caught

\* C8: validateUrls has one result per URL processed so far, result i is the
\* result for urls[i], it returns with exactly Len(urls) results, and a
\* single-URL call that throws never makes the batch fail.
C8_BatchComplete ==
  /\ [](\A j \in ScanIds :
         /\ Len(results[j]) <= Len(urls[j])
         /\ \A i \in 1..Len(results[j]) : results[j][i].url = urls[j][i]
         /\ pc[j] \in {"persist", "setSuccess", "return"} => Len(results[j]) = Len(urls[j]))
  /\ [][\A j \in ScanIds : pc[j] = "inflight" =>
          pc'[j] \in {"inflight", "validate"} /\ thrown'[j] = thrown[j]]_vars

\* C8 witness: the batch of two URLs has returned and the call for the first
\* URL threw.
C8_Witness ==
  \E j \in ScanIds :
    pc[j] = "persist" /\ Len(urls[j]) = 2 /\ Len(results[j]) = 2 /\ 1 \in att[j].threw

\* the shape of the synthetic result of a URL whose call threw
IsSynthetic(r) ==
  /\ r.isValid = FALSE
  /\ Len(r.errors) = 1
  /\ r.errors[1].severity = "critical"

\* C9: each URL whose validation call threw has one synthetic result and the
\* others have none; the catch block never receives a validation error; the
\* attempt goes on to persist one row per URL and to write status success,
\* with the URL count deducted and nothing refunded.
C9_ValidationFailureNotFatal ==
  /\ [](\A j \in ScanIds :
         /\ \A i \in 1..Len(results[j]) :
              IF i \in att[j].threw
              THEN IsSynthetic(results[j][i])
              ELSE \A k \in 1..Len(results[j][i].errors) :
                     results[j][i].errors[k].type = "error"
         /\ pc[j] = "catch" => thrown[j] \in {DbError, RedisError, ResolverError}
                                \/ thrown[j][1] \in {"Insufficient credits", "No credit account found"}
         /\ pc[j] \in {"validate", "delayed", "inflight", "persist", "setSuccess", "return"} =>
              att[j].deducted = Len(urls[j]) /\ att[j].refunded = 0)
  /\ [][\A j \in ScanIds :
          /\ (pc[j] = "inflight" => pc'[j] # "catch")
          /\ (pc[j] = "setSuccess" /\ pc'[j] = "return" =>
                scan'[j].status = "success" /\ credit' = credit)]_vars

\* C9 witness: an attempt that deducted two credits and whose second
\* validation call threw returns with status success and nothing refunded.
C9_Witness ==
  \E j \in ScanIds :
    /\ pc[j] = "return" /\ scan[j].status = "success"
    /\ att[j].threw = {2} /\ att[j].deducted = 2 /\ att[j].refunded = 0
    /\ Len(scanResult[j]) = 2

\* C10: every validation result and every persisted ScanResult row has
\* isValid equal to "its error list is empty".
C10_IsValidConsistent ==
  \A j \in ScanIds :
    /\ \A i \in 1..Len(results[j]) :
         results[j][i].isValid = (Len(results[j][i].errors) = 0)
    /\ \A i \in 1..Len(scanResult[j]) :
         scanResult[j][i].isValid = (Len(scanResult[j][i].errors) = 0)

\* C10 witness: rows of a valid page, of a page with errors and of a page
\* whose validation call threw are persisted.
C10_Witness ==
  \E j \in ScanIds :
    /\ \E i \in 1..Len(scanResult[j]) : scanResult[j][i].isValid
    /\ \E i \in 1..Len(scanResult[j]) : Len(scanResult[j][i].errors) = 2
    /\ \E i \in 1..Len(scanResult[j]) :
         scanResult[j][i].errors # <<>>
         /\ scanResult[j][i].errors[1].type = "validation_error"

\* C11: within one validateUrls run a call starts only when no call is in
\* flight, straight away for the first URL and right after the delay for the
\* others; the delay starts only once the previous call has finished,
\* returned or thrown; each finished call adds the result of the next URL
\* in input order.
C11_SequentialWithDelay ==
  [][\A j \in ScanIds :
       /\ (pc'[j] = "inflight" /\ pc[j] # "inflight") =>
             \/ pc[j] = "validate" /\ Len(results[j]) = 0
             \/ pc[j] = "delayed" /\ Len(results[j]) > 0
       /\ (pc'[j] = "delayed" /\ pc[j] # "delayed") =>
             pc[j] = "validate" /\ Len(results[j]) > 0
       /\ (results'[j] # results[j] /\ results'[j] # <<>>) =>
             /\ pc[j] = "inflight" /\ pc'[j] = "validate"
             /\ Len(results'[j]) = Len(results[j]) + 1
             /\ results'[j][Len(results'[j])].url = urls[j][Len(results[j]) + 1]]_vars

\* C11 witness: the call for the second URL is in flight, after the call for
\* the first URL threw.
C11_Witness ==
  \E j \in ScanIds :
    pc[j] = "inflight" /\ Len(results[j]) = 1 /\ 1 \in att[j].threw

\* C12 (as claimed): a deductCredits call that succeeds finds a balance of at
\* least its amount and lowers it by exactly that amount; a call that fails
\* with InsufficientCredits leaves the balance unchanged.
C12_DeductContract ==
  [][\A c \in Callers :
       /\ (lpc[c] = "deductWrite" /\ lpc'[c] = "idle") =>
             /\ credit >= lamt[c]
             /\ credit' = credit - lamt[c]
             /\ lres'[c] = "ok"
       /\ (lpc[c] = "idle" /\ lres[c] # "InsufficientCredits"
             /\ lres'[c] = "InsufficientCredits") => credit' = credit]_vars

\* C13 (as claimed): a refundCredits call for a positive amount succeeds and
\* raises the balance by exactly that amount, whatever the amount.
C13_RefundAlwaysSucceeds ==
  [][\A c \in Callers :
       (lpc[c] = "refund" /\ lpc'[c] = "idle" /\ lamt[c] > 0) =>
          /\ lres'[c] = "ok"
          /\ credit' = getCreditBalance(credit) + lamt[c]]_vars

\* C14 (as claimed): no step of a checkSufficientCredits call changes the
\* credit table, and the call answers hasSufficient exactly when the
\* balance is at least the required amount.
C14_CheckIsPureRead ==
  [][\A c \in Callers :
       /\ (lpc[c] = "checkCreate" \/ lpc'[c] = "checkCreate") => credit' = credit
       /\ (lpc[c] = "checkCreate" /\ lpc'[c] = "idle" /\ lres'[c] # "Error") =>
             (lres'[c] = "hasSufficient") = (0 >= lamt[c])]_vars

\* C15: a createScan call rejected because the sitemap is not accessible or
\* because the balance is zero leaves no Scan record and no job, and the
\* InsufficientCredits rejection happens with a balance of exactly zero.
C15_CreateFailsFast ==
  /\ [](\A s \in ScanIds :
         /\ createReply[s] \in {"NotAccessible", "InsufficientCredits"} =>
               scan[s] = NoScanRow /\ job[s] = NoJob /\ scanResult[s] = <<>>
         /\ createReply[s] = "InsufficientCredits" => credit = 0)
  /\ [][\A s \in ScanIds :
          (createReply[s] = "none" /\ createReply'[s] \in {"NotAccessible",
             "InsufficientCredits"}) => scan' = scan /\ job' = job]_vars

\* C15 witness: createScan was rejected with InsufficientCredits.
C15_Witness ==
  \E s \in ScanIds :
    createReply[s] = "InsufficientCredits" /\ credit = 0 /\ scan[s].status = "none"

C17_CancelContract ==
  [][\A s \in ScanIds :
       /\ (cancelling[s] /\ ~cancelling'[s]) =>
             /\ scan[s].status \in {"pending", "processing"}
             /\ scan'[s].status = "failed" /\ scan'[s].finishedAt
             /\ scan'[s].errorMsg = CancelledMsg
             /\ cancelReply'[s] = "ok"
       /\ (cancels' > cancels /\ cancelling'[s] = cancelling[s]
             /\ cancelReply'[s] \in {"NotFound", "Conflict"}) => scan'[s] = scan[s]
       /\ (cancelReply'[s] = "Conflict" /\ cancelReply[s] # "Conflict") =>
             scan[s].status \in {"success", "failed"}]_vars

\* C18: a Scan with status success has a ScanResult row for every URL of
\* the list the resolver returned.
C18_ResultsBeforeSuccess ==
  \A j \in ScanIds :
    scan[j].status = "success" =>
      /\ scan[j].totalUrls > 0
      /\ \A u \in 1..scan[j].totalUrls :
           \E i \in 1..Len(scanResult[j]) : scanResult[j][i].url = u

\* C18 witness: a Scan of two URLs has status success.
C18_Witness ==
  \E j \in ScanIds :
    scan[j].status = "success" /\ scan[j].totalUrls = 2 /\ Len(scanResult[j]) >= 2

\* C19: a job is reported with attempts 0 when added and maxAttempts 3; it
\* runs only while fewer than 3 attempts have failed, every run starts at
\* the first step of the processor, each failed run counts one attempt, and
\* a job that is failed or completed never runs again.
C19_BoundedRetries ==
  /\ [](\A j \in ScanIds :
         /\ getScanJobStatus(j).exists =>
               /\ getScanJobStatus(j).maxAttempts = 3
               /\ getScanJobStatus(j).attempts <= 3
         /\ job[j].state = "active" => job[j].attemptsMade < 3
         /\ pc[j] # "idle" => job[j].state = "active"
         /\ job[j].state = "failed" => job[j].attemptsMade = 3)
  /\ [][\A j \in ScanIds :
          /\ (job[j].state = "none" /\ job'[j].state # "none") =>
                getScanJobStatus(j)'.attempts = 0
          /\ (job[j].state # "active" /\ job'[j].state = "active") =>
                job[j].state = "waiting" /\ pc'[j] = "setProcessing"
          /\ job'[j].attemptsMade # job[j].attemptsMade =>
                pc[j] = "rethrow" /\ job'[j].attemptsMade = job[j].attemptsMade + 1
          /\ job[j].state \in {"failed", "completed"} =>
                job'[j].state \in {job[j].state, "removed"} /\ pc'[j] = "idle"]_vars

\* C19 witness: a job has failed after its third attempt.
C19_Witness ==
  \E j \in ScanIds : job[j].state = "failed" /\ job[j].attemptsMade = 3

\* C20 (as claimed): a job for which cancelScanJob has returned true is
\* still reported with exists: true by getScanJobStatus.
C20_ExistsAfterCancel ==
  \A j \in ScanIds : job[j].state = "removed" => getScanJobStatus(j).exists

\* C21 (as claimed): every progress value of a job is in 0..100, it is in
\* 30..90 during the validation batch, it never decreases while the job is
\* being processed, and it becomes 100 only in the step that has persisted
\* status success.
C21_ProgressPartition ==
  /\ [](\A j \in ScanIds :
         /\ job[j].progress \in 0..100
         /\ pc[j] \in {"validate", "delayed", "inflight"} => job[j].progress \in 30..90)
  /\ [][\A j \in ScanIds :
          /\ (job[j].state = "active" /\ job'[j].state = "active") =>
                job'[j].progress >= job[j].progress
          /\ (job'[j].progress = 100 /\ job[j].progress # 100) =>
                pc[j] = "setSuccess" /\ scan'[j].status = "success"]_vars

\* C21 (amended): as claimed, except that the first write of an attempt (10)
\* may lower the progress the job has kept from its previous attempt; from
\* then on the progress never decreases during the attempt.
C21_ProgressWithinAttempt ==
  /\ [](\A j \in ScanIds :
         /\ job[j].progress \in 0..100
         /\ pc[j] \in {"resolve", "setTotal"} => job[j].progress = 10
         /\ pc[j] \in {"check", "deductRead", "deductWrite"} => job[j].progress = 20
         /\ pc[j] \in {"validate", "delayed", "inflight"} => job[j].progress \in 30..90
         /\ pc[j] \in {"persist", "setSuccess"} => job[j].progress = 90
         /\ pc[j] = "return" => job[j].progress = 100)
  /\ [][\A j \in ScanIds :
          /\ (job[j].state = "active" /\ job'[j].state = "active"
                /\ pc[j] # "setProcessing") => job'[j].progress >= job[j].progress
          /\ (job'[j].progress = 100 /\ job[j].progress # 100) =>
                pc[j] = "setSuccess" /\ scan'[j].status = "success"]_vars

\* C21 witness: a retry has written 100 after status success.
C21_Witness ==
  \E j \in ScanIds :
    /\ job[j].attemptsMade > 0 /\ pc[j] = "return"
    /\ job[j].progress = 100 /\ scan[j].status = "success"

\* C22 (as claimed): in every reachable state a Scan with status pending or
\* processing has no finishedAt, and a Scan whose status is not failed has no
\* error message.
C22_FieldsAgreeWithStatus ==
  \A s \in ScanIds :
    /\ scan[s].status \in {"pending", "processing"} => ~scan[s].finishedAt
    /\ scan[s].status # "failed" => scan[s].errorMsg = NoMsg

\* the position of a step in the try block of the processor
StepRank ==
  [setProcessing |-> 1, resolve |-> 2, setTotal |-> 3, check |-> 4,
   deductRead |-> 5, deductWrite |-> 6, validate |-> 7, delayed |-> 7,
   inflight |-> 7, persist |-> 8, setSuccess |-> 9, return |-> 10]

\* C24: in every attempt the steps of the try block follow one another in
\* program order (status processing, resolution, totalUrls, credit check,
\* deduction, batch, bulk persistence, status success); a validation call is
\* in flight only after the URL count was deducted in the same attempt, and
\* ScanResult rows are written only after the batch has returned a result
\* for every URL.
C24_StepOrder ==
  /\ [](\A j \in ScanIds :
         /\ pc[j] = "inflight" =>
               /\ Len(urls[j]) > 0
               /\ att[j].deducted = Len(urls[j])
         /\ (pc[j] \in DOMAIN StepRank /\ StepRank[pc[j]] >= 4) =>
               scan[j].totalUrls = Len(urls[j]))
  /\ [][\A j \in ScanIds :
          /\ (pc'[j] # pc[j] /\ pc'[j] \in DOMAIN StepRank) =>
                IF pc[j] \in DOMAIN StepRank
                THEN \/ StepRank[pc'[j]] = StepRank[pc[j]] + 1
                     \/ StepRank[pc'[j]] = 7 /\ StepRank[pc[j]] = 7
                ELSE pc'[j] = "setProcessing"
          /\ scanResult'[j] # scanResult[j] =>
                /\ pc[j] = "persist"
                /\ Len(results[j]) = Len(urls[j])
          /\ (scan'[j].status = "success" /\ scan[j].status # "success") =>
                pc[j] = "setSuccess"]_vars

\* C24 witness: an attempt has gone through every step to status success.
C24_Witness ==
  \E j \in ScanIds :
    /\ pc[j] = "return" /\ scan[j].status = "success"
    /\ att[j].deducted = Len(urls[j])
    /\ Len(scanResult[j]) >= Len(urls[j])

\* C27 (as claimed): a Scan with status pending has a job that will process
\* it (createScan being between its insert and its enqueue excepted), and
\* when the enqueue has failed no pending Scan is left.
C27_PendingHasJob ==
  \A s \in ScanIds :
    /\ (scan[s].status = "pending" /\ createReply[s] # "queueing") =>
          job[s].state \in {"waiting", "active", "delayed"}
    /\ createReply[s] = "QueueError" => scan[s].status # "pending"

\* C28 (as claimed): the rows stored for a Scan are never more than its
\* totalUrls, hold at most one row per URL, and a failed Scan has none.
C28_RowsAtMostOnce ==
  \A s \in ScanIds :
    /\ Len(scanResult[s]) <= scan[s].totalUrls
    /\ \A a, b \in 1..Len(scanResult[s]) :
          scanResult[s][a].url = scanResult[s][b].url => a = b
    /\ scan[s].status = "failed" => scanResult[s] = <<>>

\* C29 (as claimed): without add operations the balance never exceeds its
\* initial value, and for each scan the amount refunded never exceeds the
\* amount deducted.
C29_WorkerCreatesNoCredits ==
  /\ credit <= lsum.initial
  /\ \A j \in ScanIds : att[j].charged >= 0

\* C25 (as claimed): under fair scheduling of the worker, a Scan in status
\* processing eventually has status success or failed.
C25_NoStuckProcessing ==
  \A s \in ScanIds :
    (scan[s].status = "processing") ~> (scan[s].status \in {"success", "failed"})

\* C30 (as claimed): in every reachable state at most one single-URL
\* validation request is in flight over all the jobs of the worker.
C30_OneRequestInFlight ==
  Cardinality({j \in ScanIds : pc[j] = "inflight"}) <= 1

\* a valid absolute HTTP/HTTPS URL
IsHttpUrl(u) == u \in {<<"http://a/">>, <<"https://a/">>}

\* the index of the first <loc> entry whose text, trimmed, is u
FirstAt(u) ==
  CHOOSE k \in 1..Len(sitemap) :
    trim(sitemap[k]) = u /\ \A m \in 1..(k - 1) : trim(sitemap[m]) # u

C26_OneResultPerUrl ==
  /\ bpc # "rejected"
  /\ bpc = "returned" =>
        /\ Len(bresults) = Len(burls)
        /\ \A i \in 1..Len(bresults) :
              /\ bresults[i].url = burls[i]
              /\ i \in bok => ~IsSynthetic(bresults[i])

====
